---- MODULE Spec2Model ----
(***************************************************************************)
(* Model of uboSample.cpp: GgApp::main as a sequential program (one        *)
(* program counter, one action per statement group), the OpenGL objects    *)
(* it creates (buffer stores, indexed binding points, image unit, texture, *)
(* framebuffer), the panel widgets as inputs, and the GPU as a second      *)
(* process that lands the compute kernel's image stores asynchronously.    *)
(*                                                                         *)
(* GLfloat values are fixed-point integers in units of 1/Scale.            *)
(***************************************************************************)
EXTENDS Integers, Sequences, FiniteSets, TLC

----------------------------------------------------------------------------
(* Bounds of the model *)

\* widget-reported changes over the whole run
MaxEdits == 2

----------------------------------------------------------------------------
(* Program constants *)

width == 960
height == 540

\* fixed-point unit of a GLfloat
Scale == 1000

\* std::numeric_limits<float>::epsilon() (1.19e-7) in fixed point: the
\* smallest positive representable length
Epsilon == 1

\* GL object names held by the handle variables (glGen* in a fresh context)
cameraUbo == 1
lightUbo == 2
materialUbo == 3
sphereSsbo == 4
texture == 1
framebuffer == 1
ImageUnit == 0

Buffers == {cameraUbo, lightUbo, materialUbo, sphereSsbo}

----------------------------------------------------------------------------
(* Vector arithmetic (lines 107-153) *)

Abs(x) == IF x < 0 THEN -x ELSE x

\* fixed-point product of two fixed-point numbers
Mul(x, y) == (x * y) \div Scale

dot(a, b) == Mul(a[1], b[1]) + Mul(a[2], b[2]) + Mul(a[3], b[3])

cross(a, b) ==
  << Mul(a[2], b[3]) - Mul(a[3], b[2]),
     Mul(a[3], b[1]) - Mul(a[1], b[3]),
     Mul(a[1], b[2]) - Mul(a[2], b[1]) >>

RECURSIVE SqrtIter(_, _, _)
SqrtIter(x, lo, hi) ==
  IF lo >= hi THEN lo
  ELSE LET mid == (lo + hi + 1) \div 2
       IN  IF mid * mid <= x THEN SqrtIter(x, mid, hi)
           ELSE SqrtIter(x, lo, mid - 1)

\* std::sqrt of a fixed-point number (floor of the exact root)
Sqrt(x) == SqrtIter(x * Scale, 0, 40000)

length(a) == Sqrt(dot(a, a))

\* a normalize that answers a vector of no length with a unit axis
normalize_unitAxis(a) ==
  LET len == length(a)
  IN  IF Abs(len) < Epsilon THEN << Scale, 0, 0 >>
      ELSE << (a[1] * Scale) \div len,
              (a[2] * Scale) \div len,
              (a[3] * Scale) \div len >>

normalize(a) ==
  LET len == length(a)
  IN  IF Abs(len) < Epsilon THEN a
      ELSE << (a[1] * Scale) \div len,
              (a[2] * Scale) \div len,
              (a[3] * Scale) \div len >>

\* tanf(fovy * 0.5f * 3.1415927f / 180.0f) for the angles the model uses
TanHalf(fovy) ==
  CASE fovy = 60 -> 577
    [] fovy = 90 -> 1000
    [] OTHER -> 1732

\* setCamera (lines 170-203): the camera frame for eye/target/up/fovy
setCamera(position, target, up, fovy) ==
  LET forward == normalize(<< target[1] - position[1],
                              target[2] - position[2],
                              target[3] - position[3] >>)
      right   == normalize(cross(forward, up))
      focal   == (Scale * Scale) \div TanHalf(fovy)
  IN  [ origin   |-> << position[1] + Mul(forward[1], focal),
                        position[2] + Mul(forward[2], focal),
                        position[3] + Mul(forward[3], focal) >>,
        right    |-> right,
        up       |-> cross(right, forward),
        position |-> position ]

----------------------------------------------------------------------------
(* Object layout of the device-mirrored records (lines 34-98) *)

\* a member: its size and alignment in bytes
Member(s, a) == [size |-> s, align |-> a]

CameraMembers   == << Member(12, 16), Member(12, 16), Member(12, 16), Member(12, 16) >>
LightMembers    == << Member(16, 16), Member(16, 16), Member(16, 16), Member(16, 16) >>
MaterialMembers == << Member(16, 16), Member(16, 16), Member(16, 16), Member(4, 4) >>

\* a sphere whose centre is declared without alignas(16)
SphereMembers_noAlignas == << Member(12, 4), Member(4, 4), Member(4, 4) >>

SphereMembers   == << Member(12, 16), Member(4, 4), Member(4, 4) >>

AlignUp(n, a) == ((n + a - 1) \div a) * a

RECURSIVE OffsetOf(_, _)
OffsetOf(ms, k) ==
  IF k = 1 THEN 0
  ELSE AlignUp(OffsetOf(ms, k - 1) + ms[k - 1].size, ms[k].align)

RECURSIVE MaxAlign(_, _)
MaxAlign(ms, k) ==
  IF k = 0 THEN 1
  ELSE LET r == MaxAlign(ms, k - 1)
       IN  IF ms[k].align > r THEN ms[k].align ELSE r

SizeOf(ms) ==
  AlignUp(OffsetOf(ms, Len(ms)) + ms[Len(ms)].size, MaxAlign(ms, Len(ms)))

\* content of a padding word
Pad == -777777

\* for each 4-byte word of a record: the member it lies in and its index in
\* that member's words, or member 0 for a word of padding
Layout(ms) ==
  [ i \in 1..(SizeOf(ms) \div 4) |->
      LET b == (i - 1) * 4
          K == { k \in 1..Len(ms) :
                   OffsetOf(ms, k) <= b /\ b < OffsetOf(ms, k) + ms[k].size }
      IN  IF K = {} THEN [ member |-> 0, word |-> 0 ]
          ELSE LET k == CHOOSE k \in K : TRUE
               IN  [ member |-> k, word |-> (b - OffsetOf(ms, k)) \div 4 + 1 ] ]

CameraLayout   == Layout(CameraMembers)
LightLayout    == Layout(LightMembers)
MaterialLayout == Layout(MaterialMembers)
SphereLayout   == Layout(SphereMembers)

\* the object representation of one record as 4-byte words: vals[k] is the
\* sequence of words of member k
StructWords(layout, vals) ==
  [ i \in 1..Len(layout) |->
      IF layout[i].member = 0 THEN Pad
      ELSE vals[layout[i].member][layout[i].word] ]

RECURSIVE Flatten(_)
Flatten(ss) == IF ss = << >> THEN << >> ELSE Head(ss) \o Flatten(Tail(ss))

CameraBytes(c) ==
  StructWords(CameraLayout, << c.origin, c.right, c.up, c.position >>)

LightBytes(ls) ==
  Flatten([ i \in 1..Len(ls) |->
    StructWords(LightLayout,
      << ls[i].ambient, ls[i].diffuse, ls[i].specular, ls[i].position >>) ])

MaterialBytes(ms) ==
  Flatten([ i \in 1..Len(ms) |->
    StructWords(MaterialLayout,
      << ms[i].ambient, ms[i].diffuse, ms[i].specular, << ms[i].shininess >> >>) ])

SphereBytes(ss) ==
  Flatten([ i \in 1..Len(ss) |->
    StructWords(SphereLayout,
      << ss[i].center, << ss[i].radius >>, << ss[i].materialIndex >> >>) ])

----------------------------------------------------------------------------
(* Initial scene data (lines 232-241, 257-268, 284-295, 311-320) *)

InitPosition == << 0, 0, 2000 >>
InitTarget   == << 0, 0, 0 >>
InitUp       == << 0, 1000, 0 >>
InitFovy     == 60

InitLight ==
  << [ ambient  |-> << 200, 200, 200, 1000 >>,
       diffuse  |-> << 1000, 1000, 1000, 0 >>,
       specular |-> << 1000, 1000, 1000, 0 >>,
       position |-> << 3000, 4000, 5000, 1000 >> ],
     [ ambient  |-> << 100, 100, 0, 1000 >>,
       diffuse  |-> << 500, 500, 0, 0 >>,
       specular |-> << 500, 500, 0, 0 >>,
       position |-> << -5000, 1000, 3000, 1000 >> ] >>

InitMaterial ==
  << [ ambient   |-> << 600, 100, 100, 1000 >>,
       diffuse   |-> << 600, 100, 100, 0 >>,
       specular  |-> << 300, 300, 300, 0 >>,
       shininess |-> 100000 ],
     [ ambient   |-> << 100, 100, 600, 1000 >>,
       diffuse   |-> << 100, 100, 600, 0 >>,
       specular  |-> << 300, 300, 300, 0 >>,
       shininess |-> 100000 ] >>

InitSphere ==
  << [ center |-> << 1000, 0, -2000 >>, radius |-> 1000, materialIndex |-> 0 ],
     [ center |-> << -1000, 0, -1000 >>, radius |-> 1000, materialIndex |-> 1 ] >>

\* light.size(), material.size(), sphere.size()
lightCount    == Len(InitLight)
materialCount == Len(InitMaterial)
sphereCount   == Len(InitSphere)

\* sizeof camera, sizeof light, sizeof material, sizeof sphere
SizeofCamera   == SizeOf(CameraMembers)
SizeofLight    == lightCount * SizeOf(LightMembers)
SizeofMaterial == materialCount * SizeOf(MaterialMembers)
SizeofSphere   == sphereCount * SizeOf(SphereMembers)

----------------------------------------------------------------------------
(* Inputs the panel can report, and the sizes the window can take *)

PositionValues  == { << 2000, 0, 0 >> }
TargetValues    == { << 0, 2000, 2000 >> }
UpValues        == { << 0, 0, 1000 >> }
FovyValues      == { 90 }
RgbValues       == { << 500, 500, 500 >> }
XyzValues       == { << 0, 0, 0 >> }
ShininessValues == { 1000 }
Drawables       == { << width, height >>, << 480, 270 >> }

\* the regions of the output image whose stores land separately
Tiles == { "image" }

----------------------------------------------------------------------------
(* The program text of GgApp::main as statement labels, in source order *)

Startup ==
  << "createWindow", "loadShader", "initCamera", "createCameraUbo",
     "createLightUbo", "createMaterialUbo", "createSphereSsbo",
     "createTexture", "createFramebuffer" >>

LoopHead == << "loopTest", "poll" >>

\* each update block placed ahead of its widgets
Panel_syncBeforeEdit ==
  << "begin", "cameraSync", "cameraEdit", "lightSync", "lightEdit",
     "materialEdit", "materialSync" >>

Panel ==
  << "begin", "cameraEdit", "cameraSync", "lightEdit", "lightSync",
     "materialEdit", "materialSync" >>

\* the unbinds placed ahead of the barrier
Frame_unbindBeforeBarrier ==
  << "bind", "dispatch", "unbind", "barrier", "blit", "swap" >>

Frame == << "bind", "dispatch", "barrier", "unbind", "blit", "swap" >>

Shutdown == << "delete", "return" >>

Program == Startup \o LoopHead \o Panel \o Frame \o Shutdown \o << "done" >>

\* the statement that follows statement l in the text
After(l) ==
  LET i == CHOOSE i \in 1..Len(Program) : Program[i] = l
  IN  Program[i + 1]

----------------------------------------------------------------------------
(* State *)

VARIABLES
  pc,              \* the statement GgApp::main executes next
  window,          \* "unset", "null" or "ok": Window::get()
  shouldClose,     \* the window's close request
  shader,          \* -1 before ggLoadComputeShader, then its result
  exit,            \* "none", "exception" or "0"
  position, target, up, fovy, camera,
  light, material, sphere,
  targetLight, targetMaterial,
  showMenu, cameraChanged, lightChanged, materialChanged,
  created,         \* the objects created, in order
  deleted,         \* the objects deleted, in order
  dev,             \* the data store of each buffer object, in 4-byte words
  base,            \* the indexed buffer binding points
  program,         \* glUseProgram
  uniforms,        \* lightCount, sphereCount, image
  imageUnit,       \* image unit 0: texture and access
  pending,         \* tiles whose image store of the last dispatch has not landed
  fenced,          \* barrier bits issued since the last dispatch
  grid,            \* the work-group counts of the last dispatch
  log,             \* the GL calls and edits of the current iteration
  edits,           \* widget-reported changes so far
  snap,            \* dev when the current iteration started or, later, when it
                   \* dispatched
  lastD,           \* device buffers and kernel output of the last dispatch
  misuse           \* a GL object was used while not alive

cpuVars  == << position, target, up, fovy, camera, light, material, sphere,
               targetLight, targetMaterial >>
flagVars == << cameraChanged, lightChanged, materialChanged >>
winVars  == << window, shouldClose, shader, exit, showMenu >>
objVars  == << created, deleted >>
bindVars == << base, program, uniforms, imageUnit >>
gpuVars  == << pending, fenced, grid >>
histVars == << edits, snap, lastD >>

vars == << pc, cpuVars, flagVars, winVars, objVars, dev, bindVars, gpuVars,
           log, histVars, misuse >>

Points == { << "SSBO", 0 >>, << "UBO", 1 >>, << "UBO", 2 >>, << "UBO", 3 >> }

NoVec    == << Pad, Pad, Pad >>
NoCamera == [ origin |-> NoVec, right |-> NoVec, up |-> NoVec, position |-> NoVec ]

NoDispatch == [ dev |-> << >>, out |-> << >> ]

Init ==
  /\ pc = Head(Startup)
  /\ window = "unset" /\ shouldClose = FALSE
  /\ shader = -1 /\ exit = "none"
  /\ position = InitPosition /\ target = InitTarget /\ up = InitUp
  /\ fovy = InitFovy /\ camera = NoCamera
  /\ light = InitLight /\ material = InitMaterial /\ sphere = InitSphere
  /\ targetLight = 0 /\ targetMaterial = 0
  /\ showMenu = FALSE
  /\ cameraChanged = FALSE /\ lightChanged = FALSE /\ materialChanged = FALSE
  /\ created = << >> /\ deleted = << >>
  /\ dev = [ b \in Buffers |-> << >> ]
  /\ base = [ p \in Points |-> 0 ]
  /\ program = 0
  /\ uniforms = [ lightCount |-> -1, sphereCount |-> -1, image |-> -1 ]
  /\ imageUnit = [ texture |-> 0, access |-> "none" ]
  /\ pending = {}
  /\ fenced = {} /\ grid = << 0, 0, 0 >>
  /\ log = << >> /\ edits = 0
  /\ snap = [ b \in Buffers |-> << >> ]
  /\ lastD = NoDispatch
  /\ misuse = FALSE

----------------------------------------------------------------------------
(* GL object helpers *)

Count(s, x) == Cardinality({ i \in 1..Len(s) : s[i] = x })

Alive(name) == Count(created, name) > Count(deleted, name)

\* an entry of the iteration's log
Ev(op) ==
  [ op |-> op, buf |-> 0, offset |-> 0, size |-> 0, rect |-> << >>,
    unlanded |-> {} ]
EditEv(buf) == [ Ev("edit") EXCEPT !.buf = buf ]
UploadEv(u) ==
  [ Ev("upload") EXCEPT !.buf = u.buf, !.offset = u.offset, !.size = u.size ]
BlitEv(d, w) == [ Ev("blit") EXCEPT !.rect = d, !.unlanded = w ]

\* glBufferData(target, size, data, usage) on buffer b
BufferData(d, b, size, data) ==
  [ d EXCEPT ![b] = SubSeq(data, 1, size \div 4) ]

\* glBufferSubData(target, offset, size, data) on buffer b; a range that
\* leaves the store is GL_INVALID_VALUE and writes nothing
BufferSubData(d, b, offset, size, data) ==
  IF offset + size > 4 * Len(d[b]) THEN d
  ELSE [ d EXCEPT ![b] =
           [ i \in 1..Len(@) |->
               IF offset <= (i - 1) * 4 /\ (i - 1) * 4 < offset + size
               THEN data[i - (offset \div 4)]
               ELSE @[i] ] ]

\* the store a binding point gives the kernel
Store(h) == IF h \in Buffers THEN dev[h] ELSE << >>

----------------------------------------------------------------------------
(* Startup (lines 214-354) *)

\* the window created with no test of window.get()
CreateWindow_unchecked ==
  /\ pc = "createWindow"
  /\ \E ok \in BOOLEAN : window' = IF ok THEN "ok" ELSE "null"
  /\ pc' = After(pc)
  /\ UNCHANGED << shouldClose, shader, exit, showMenu, cpuVars, flagVars,
                  objVars, dev, bindVars, gpuVars, log, histVars, misuse >>

\* Window window{...}; if (window.get() == nullptr) throw
CreateWindow ==
  /\ pc = "createWindow"
  /\ \E ok \in BOOLEAN :
       IF ok
       THEN /\ window' = "ok" /\ pc' = After(pc) /\ exit' = exit
       ELSE /\ window' = "null" /\ pc' = "aborted" /\ exit' = "exception"
  /\ UNCHANGED << shouldClose, shader, showMenu, cpuVars, flagVars,
                  objVars, dev, bindVars, gpuVars, log, histVars, misuse >>

\* shader = ggLoadComputeShader(...); if (shader == 0) throw
LoadShader ==
  /\ pc = "loadShader"
  /\ \E h \in { 0, 1 } :
       /\ shader' = h
       /\ IF h # 0
          THEN /\ created' = Append(created, "shader")
               /\ pc' = After(pc) /\ exit' = exit
          ELSE /\ created' = created
               /\ pc' = "aborted" /\ exit' = "exception"
  /\ UNCHANGED << window, shouldClose, showMenu, cpuVars, flagVars,
                  deleted, dev, bindVars, gpuVars, log, histVars, misuse >>

\* Camera camera; setCamera(camera, position, target, up, fovy);
InitCamera ==
  /\ pc = "initCamera"
  /\ camera' = setCamera(position, target, up, fovy)
  /\ pc' = After(pc)
  /\ UNCHANGED << position, target, up, fovy, light, material, sphere,
                  targetLight, targetMaterial, flagVars, winVars, objVars, dev,
                  bindVars, gpuVars, log, histVars, misuse >>

\* glGenBuffers; glBindBuffer; glBufferData(target, size, data); glBindBuffer(0)
CreateBuffer(label, name, b, size, data) ==
  /\ pc = label
  /\ created' = Append(created, name)
  /\ dev' = BufferData(dev, b, size, data)
  /\ pc' = After(pc)
  /\ UNCHANGED << cpuVars, flagVars, winVars, deleted, bindVars, gpuVars, log,
                  histVars, misuse >>

CreateCameraUbo ==
  CreateBuffer("createCameraUbo", "cameraUbo", cameraUbo, SizeofCamera,
               CameraBytes(camera))

CreateLightUbo ==
  CreateBuffer("createLightUbo", "lightUbo", lightUbo, SizeofLight,
               LightBytes(light))

CreateMaterialUbo ==
  CreateBuffer("createMaterialUbo", "materialUbo", materialUbo, SizeofMaterial,
               MaterialBytes(material))

CreateSphereSsbo ==
  CreateBuffer("createSphereSsbo", "sphereSsbo", sphereSsbo, SizeofSphere,
               SphereBytes(sphere))

\* glGenTextures; glTexImage2D(..., width, height, ..., nullptr)
CreateTexture ==
  /\ pc = "createTexture"
  /\ created' = Append(created, "texture")
  /\ pc' = After(pc)
  /\ UNCHANGED << cpuVars, flagVars, winVars, deleted, dev, bindVars, pending,
                  fenced, grid, log, histVars, misuse >>

\* glGenFramebuffers; glFramebufferTexture2D(..., texture, 0)
CreateFramebuffer ==
  /\ pc = "createFramebuffer"
  /\ created' = Append(created, "framebuffer")
  /\ misuse' = (misuse \/ ~Alive("texture"))
  /\ pc' = After(pc)
  /\ UNCHANGED << cpuVars, flagVars, winVars, deleted, dev, bindVars, gpuVars,
                  log, histVars >>

----------------------------------------------------------------------------
(* The loop head (lines 357-363) *)

\* a loop that goes on with the next iteration whatever the window reports
LoopTest_ignoreClose ==
  /\ pc = "loopTest"
  /\ \E close \in BOOLEAN : shouldClose' = close
  /\ pc' = After(pc) /\ log' = << Ev("poll") >> /\ snap' = dev
  /\ UNCHANGED << window, shader, exit, showMenu, cpuVars, flagVars, objVars,
                  dev, bindVars, gpuVars, edits, lastD, misuse >>

\* while (window): the window takes its events and reports whether it is
\* still open
LoopTest ==
  /\ pc = "loopTest"
  /\ \E close \in BOOLEAN :
       /\ shouldClose' = close
       /\ IF ~close
          THEN /\ pc' = After(pc) /\ log' = << Ev("poll") >> /\ snap' = dev
          ELSE /\ pc' = Head(Shutdown) /\ log' = << >> /\ snap' = snap
  /\ UNCHANGED << window, shader, exit, showMenu, cpuVars, flagVars, objVars,
                  dev, bindVars, gpuVars, edits, lastD, misuse >>

\* a panel shown only while the key is held
Poll_noLatch ==
  /\ pc = "poll"
  /\ \E tab \in BOOLEAN :
       /\ showMenu' = tab
       /\ pc' = IF showMenu' THEN After(pc) ELSE Head(Frame)
  /\ UNCHANGED << window, shouldClose, shader, exit, cpuVars,
                  flagVars, objVars, dev, bindVars, gpuVars, log, histVars,
                  misuse >>

\* showMenu = showMenu || glfwGetKey(TAB); if (showMenu) ...
Poll ==
  /\ pc = "poll"
  /\ \E tab \in BOOLEAN :
       /\ showMenu' = (showMenu \/ tab)
       /\ pc' = IF showMenu' THEN After(pc) ELSE Head(Frame)
  /\ UNCHANGED << window, shouldClose, shader, exit, cpuVars,
                  flagVars, objVars, dev, bindVars, gpuVars, log, histVars,
                  misuse >>

----------------------------------------------------------------------------
(* The panel (lines 363-436) *)

\* what a Drag/ColorEdit widget returns: whether it changed the value
Changed(old, new) == new # old

\* flag = w1; flag = w2; ...: each widget's return value replaces the flag
AnyChanged_assign(rets) == rets[Len(rets)]

\* flag = false; flag |= w1; flag |= w2; ... over the widgets' return values
AnyChanged(rets) == \E i \in 1..Len(rets) : rets[i]

HowMany(rets) == Cardinality({ i \in 1..Len(rets) : rets[i] })

\* the three components a DragFloat3/ColorEdit3 shows of a vec4, and a vec4
\* with those three replaced
Xyz(v) == << v[1], v[2], v[3] >>

\* a widget that writes all four components, the fourth as zero
SetXyz_clearW(v, n) == << n[1], n[2], n[3], 0 >>

SetXyz(v, n) == << n[1], n[2], n[3], v[4] >>

\* the buffer and byte range each update block passes to glBufferSubData
CameraUpload   == [ buf |-> cameraUbo, offset |-> 0, size |-> SizeofCamera ]

\* the light block binding the material buffer
LightUpload_materialUbo ==
  [ buf |-> materialUbo, offset |-> 0, size |-> SizeofLight ]

LightUpload    == [ buf |-> lightUbo, offset |-> 0, size |-> SizeofLight ]

\* the material block sending one record's worth of bytes
MaterialUpload_oneRecord ==
  [ buf |-> materialUbo, offset |-> 0, size |-> SizeOf(MaterialMembers) ]

MaterialUpload == [ buf |-> materialUbo, offset |-> 0, size |-> SizeofMaterial ]

BufferName(b) ==
  CASE b = cameraUbo -> "cameraUbo"
    [] b = lightUbo -> "lightUbo"
    [] b = materialUbo -> "materialUbo"
    [] b = sphereSsbo -> "sphereSsbo"
    [] OTHER -> "none"

\* ImGui::Begin(title, &showMenu): the close button clears showMenu
Begin ==
  /\ pc = "begin"
  /\ \E close \in BOOLEAN : showMenu' = (showMenu /\ ~close)
  /\ pc' = After(pc)
  /\ UNCHANGED << window, shouldClose, shader, exit, cpuVars,
                  flagVars, objVars, dev, bindVars, gpuVars, log, histVars,
                  misuse >>

\* the four camera widgets (lines 376-380)
CameraEdit ==
  /\ pc = "cameraEdit"
  /\ \E p \in PositionValues \cup { position },
        t \in TargetValues \cup { target },
        u \in UpValues \cup { up },
        f \in FovyValues \cup { fovy } :
       LET rets == << Changed(position, p), Changed(target, t),
                      Changed(up, u), Changed(fovy, f) >>
       IN  /\ edits + HowMany(rets) <= MaxEdits
           /\ position' = p /\ target' = t /\ up' = u /\ fovy' = f
           /\ cameraChanged' = AnyChanged(rets)
           /\ edits' = edits + HowMany(rets)
           /\ log' = IF HowMany(rets) > 0 THEN Append(log, EditEv(cameraUbo))
                     ELSE log
  /\ pc' = After(pc)
  /\ UNCHANGED << camera, light, material, sphere, targetLight, targetMaterial,
                  lightChanged, materialChanged, winVars, objVars, dev,
                  bindVars, gpuVars, snap, lastD, misuse >>

\* a sync that stores the new eye position and leaves the rest of the frame
CameraSync_positionOnly ==
  /\ pc = "cameraSync"
  /\ IF cameraChanged
     THEN /\ camera' = [ camera EXCEPT !.position = position ]
          /\ dev' = BufferSubData(dev, CameraUpload.buf, CameraUpload.offset,
                                  CameraUpload.size, CameraBytes(camera'))
          /\ log' = Append(log, UploadEv(CameraUpload))
          /\ misuse' = (misuse \/ ~Alive(BufferName(CameraUpload.buf)))
     ELSE UNCHANGED << camera, dev, log, misuse >>
  /\ pc' = After(pc)
  /\ UNCHANGED << position, target, up, fovy, light, material, sphere,
                  targetLight, targetMaterial, flagVars, winVars, objVars,
                  bindVars, gpuVars, histVars >>

\* if (cameraChanged) { setCamera(...); glBufferSubData(...); } (lines 383-392)
CameraSync ==
  /\ pc = "cameraSync"
  /\ IF cameraChanged
     THEN /\ camera' = setCamera(position, target, up, fovy)
          /\ dev' = BufferSubData(dev, CameraUpload.buf, CameraUpload.offset,
                                  CameraUpload.size, CameraBytes(camera'))
          /\ log' = Append(log, UploadEv(CameraUpload))
          /\ misuse' = (misuse \/ ~Alive(BufferName(CameraUpload.buf)))
     ELSE UNCHANGED << camera, dev, log, misuse >>
  /\ pc' = After(pc)
  /\ UNCHANGED << position, target, up, fovy, light, material, sphere,
                  targetLight, targetMaterial, flagVars, winVars, objVars,
                  bindVars, gpuVars, histVars >>

\* ImGui::DragInt(..., &targetLight, 1.0f, 0, lightCount - 1), then the four
\* widgets on light[targetLight] (lines 398-403)
LightEdit ==
  /\ pc = "lightEdit"
  /\ \E i \in 0..(lightCount - 1) : targetLight' = i
  /\ LET cur == light[targetLight' + 1]
     IN  \E po \in XyzValues \cup { Xyz(cur.position) },
            am \in RgbValues \cup { Xyz(cur.ambient) },
            di \in RgbValues \cup { Xyz(cur.diffuse) },
            sp \in RgbValues \cup { Xyz(cur.specular) } :
           LET rets == << Changed(Xyz(cur.position), po),
                          Changed(Xyz(cur.ambient), am),
                          Changed(Xyz(cur.diffuse), di),
                          Changed(Xyz(cur.specular), sp) >>
           IN  /\ edits + HowMany(rets) <= MaxEdits
               /\ light' = [ light EXCEPT ![targetLight' + 1] =
                               [ ambient  |-> SetXyz(cur.ambient, am),
                                 diffuse  |-> SetXyz(cur.diffuse, di),
                                 specular |-> SetXyz(cur.specular, sp),
                                 position |-> SetXyz(cur.position, po) ] ]
               /\ lightChanged' = AnyChanged(rets)
               /\ edits' = edits + HowMany(rets)
               /\ log' = IF HowMany(rets) > 0
                         THEN Append(log, EditEv(lightUbo)) ELSE log
  /\ pc' = After(pc)
  /\ UNCHANGED << position, target, up, fovy, camera, material, sphere,
                  targetMaterial, cameraChanged, materialChanged,
                  winVars, objVars, dev, bindVars, gpuVars, snap, lastD,
                  misuse >>

\* a light sync that tests the camera's flag as well as its own
LightSync_anyFlag ==
  /\ pc = "lightSync"
  /\ IF cameraChanged \/ lightChanged
     THEN /\ dev' = BufferSubData(dev, LightUpload.buf, LightUpload.offset,
                                  LightUpload.size, LightBytes(light))
          /\ log' = Append(log, UploadEv(LightUpload))
          /\ misuse' = (misuse \/ ~Alive(BufferName(LightUpload.buf)))
     ELSE UNCHANGED << dev, log, misuse >>
  /\ pc' = After(pc)
  /\ UNCHANGED << cpuVars, flagVars, winVars, objVars, bindVars, gpuVars,
                  histVars >>

\* if (lightChanged) { glBufferSubData(...); } (lines 406-412)
LightSync ==
  /\ pc = "lightSync"
  /\ IF lightChanged
     THEN /\ dev' = BufferSubData(dev, LightUpload.buf, LightUpload.offset,
                                  LightUpload.size, LightBytes(light))
          /\ log' = Append(log, UploadEv(LightUpload))
          /\ misuse' = (misuse \/ ~Alive(BufferName(LightUpload.buf)))
     ELSE UNCHANGED << dev, log, misuse >>
  /\ pc' = After(pc)
  /\ UNCHANGED << cpuVars, flagVars, winVars, objVars, bindVars, gpuVars,
                  histVars >>

\* ImGui::DragInt(..., &targetMaterial, 1.0f, 0, materialCount - 1), then the
\* four widgets on material[targetMaterial] (lines 418-423)
MaterialEdit ==
  /\ pc = "materialEdit"
  /\ \E i \in 0..(materialCount - 1) : targetMaterial' = i
  /\ LET cur == material[targetMaterial' + 1]
     IN  \E am \in RgbValues \cup { Xyz(cur.ambient) },
            di \in RgbValues \cup { Xyz(cur.diffuse) },
            sp \in RgbValues \cup { Xyz(cur.specular) },
            sh \in ShininessValues \cup { cur.shininess } :
           LET rets == << Changed(Xyz(cur.ambient), am),
                          Changed(Xyz(cur.diffuse), di),
                          Changed(Xyz(cur.specular), sp),
                          Changed(cur.shininess, sh) >>
           IN  /\ edits + HowMany(rets) <= MaxEdits
               /\ material' = [ material EXCEPT ![targetMaterial' + 1] =
                                  [ ambient   |-> SetXyz(cur.ambient, am),
                                    diffuse   |-> SetXyz(cur.diffuse, di),
                                    specular  |-> SetXyz(cur.specular, sp),
                                    shininess |-> sh ] ]
               /\ materialChanged' = AnyChanged(rets)
               /\ edits' = edits + HowMany(rets)
               /\ log' = IF HowMany(rets) > 0
                         THEN Append(log, EditEv(materialUbo)) ELSE log
  /\ pc' = After(pc)
  /\ UNCHANGED << position, target, up, fovy, camera, light, sphere,
                  targetLight, cameraChanged, lightChanged,
                  winVars, objVars, dev, bindVars, gpuVars, snap, lastD,
                  misuse >>

\* if (materialChanged) { glBufferSubData(...); } ImGui::End(); the block's
\* three flags go out of scope (lines 426-436)
MaterialSync ==
  /\ pc = "materialSync"
  /\ IF materialChanged
     THEN /\ dev' = BufferSubData(dev, MaterialUpload.buf, MaterialUpload.offset,
                                  MaterialUpload.size, MaterialBytes(material))
          /\ log' = Append(log, UploadEv(MaterialUpload))
          /\ misuse' = (misuse \/ ~Alive(BufferName(MaterialUpload.buf)))
     ELSE UNCHANGED << dev, log, misuse >>
  /\ cameraChanged' = FALSE /\ lightChanged' = FALSE /\ materialChanged' = FALSE
  /\ pc' = After(pc)
  /\ UNCHANGED << cpuVars, winVars, objVars, bindVars, gpuVars, histVars >>

----------------------------------------------------------------------------
(* The compute pass, the blit and the swap (lines 438-489) *)

\* the light and material buffers bound to each other's points
BaseBindings_swapped ==
  [ p \in Points |->
      CASE p = << "SSBO", 0 >> -> sphereSsbo
        [] p = << "UBO", 1 >> -> cameraUbo
        [] p = << "UBO", 2 >> -> materialUbo
        [] p = << "UBO", 3 >> -> lightUbo ]

\* glBindBufferBase(target, index, buffer) of lines 439-448
BaseBindings ==
  [ p \in Points |->
      CASE p = << "SSBO", 0 >> -> sphereSsbo
        [] p = << "UBO", 1 >> -> cameraUbo
        [] p = << "UBO", 2 >> -> lightUbo
        [] p = << "UBO", 3 >> -> materialUbo ]

\* the selected light's index passed as the light count
LightCountArg_targetLight == targetLight

\* the values passed to glUniform1i (lines 454-458)
LightCountArg  == lightCount
SphereCountArg == sphereCount

\* a grid counted in groups of 16 x 16 invocations
DispatchGrid_groupsOf16 == << width \div 16, height \div 16, 1 >>

\* glDispatchCompute(width, height, 1)
DispatchGrid == << width, height, 1 >>

\* glMemoryBarrier(GL_SHADER_IMAGE_ACCESS_BARRIER_BIT)
BarrierBits == { "SHADER_IMAGE_ACCESS" }

\* the access by which glBlitFramebuffer reaches the texture: a read through
\* the framebuffer attachment of line 347
BlitAccess == "FRAMEBUFFER"

\* what the kernel stores for a tile: a function of the four bound stores and
\* the two counts
Kernel(t, sph, cam, lgt, mat, lc, sc) ==
  [ tile |-> t, sphere |-> sph, camera |-> cam, light |-> lgt,
    material |-> mat, lightCount |-> lc, sphereCount |-> sc ]

\* glBindBufferBase x 4; glUseProgram(shader); glUniform1i x 3;
\* glBindImageTexture(ImageUnit, texture, 0, GL_FALSE, 0, GL_WRITE_ONLY,
\* GL_RGBA8) (lines 439-461)
Bind ==
  /\ pc = "bind"
  /\ base' = BaseBindings
  /\ program' = shader
  /\ uniforms' = [ lightCount |-> LightCountArg, sphereCount |-> SphereCountArg,
                   image |-> ImageUnit ]
  /\ imageUnit' = [ texture |-> texture, access |-> "WRITE_ONLY" ]
  /\ misuse' = (misuse \/ ~Alive("shader") \/ ~Alive("texture")
                  \/ \E p \in Points : ~Alive(BufferName(BaseBindings[p])))
  /\ log' = Append(log, Ev("bind"))
  /\ pc' = After(pc)
  /\ UNCHANGED << cpuVars, flagVars, winVars, objVars, dev, gpuVars, histVars >>

\* what a dispatch issued now reads and what its kernel stores
Dispatched ==
  [ dev |-> dev,
    out |-> [ t \in Tiles |->
                Kernel(t, Store(base[<< "SSBO", 0 >>]),
                       Store(base[<< "UBO", 1 >>]),
                       Store(base[<< "UBO", 2 >>]),
                       Store(base[<< "UBO", 3 >>]),
                       uniforms.lightCount, uniforms.sphereCount) ] ]

\* glDispatchCompute: the kernel reads the stores bound now; its image stores
\* land later.
Dispatch ==
  /\ pc = "dispatch"
  /\ pending' = IF program # 0 /\ imageUnit.texture # 0 THEN Tiles ELSE {}
  /\ lastD' = Dispatched
  /\ fenced' = {}
  /\ grid' = DispatchGrid
  /\ misuse' = (misuse \/ ~Alive("shader") \/ ~Alive("texture")
                  \/ \E p \in Points : ~Alive(BufferName(base[p])))
  /\ log' = Append(log, Ev("dispatch"))
  /\ pc' = After(pc)
  /\ snap' = dev
  /\ UNCHANGED << cpuVars, flagVars, winVars, objVars, dev, bindVars, edits >>

\* glMemoryBarrier(bits)
Barrier ==
  /\ pc = "barrier"
  /\ fenced' = fenced \cup BarrierBits
  /\ log' = Append(log, Ev("barrier"))
  /\ pc' = After(pc)
  /\ UNCHANGED << cpuVars, flagVars, winVars, objVars, dev, bindVars,
                  pending, grid, histVars, misuse >>

\* glBindImageTexture(ImageUnit, 0, ...); glUseProgram(0);
\* glBindBufferBase(target, index, 0) x 4 (lines 470-481)
Unbind ==
  /\ pc = "unbind"
  /\ imageUnit' = [ texture |-> 0, access |-> "WRITE_ONLY" ]
  /\ program' = 0
  /\ base' = [ p \in Points |-> 0 ]
  /\ log' = Append(log, Ev("unbind"))
  /\ pc' = After(pc)
  /\ UNCHANGED << cpuVars, flagVars, winVars, objVars, dev, uniforms, gpuVars,
                  histVars, misuse >>

\* glBindFramebuffer(READ, framebuffer); glBlitFramebuffer(0, 0, width,
\* height, 0, 0, window.getWidth(), window.getHeight(), ...); the read waits
\* for the outstanding image stores only when a barrier for framebuffer access
\* was issued after the dispatch; otherwise it copies what has landed
Blit ==
  /\ pc = "blit"
  /\ LET unlanded == IF BlitAccess \in fenced THEN {} ELSE pending
     IN  /\ pending' = unlanded
         /\ \E d \in Drawables : log' = Append(log, BlitEv(d, unlanded))
  /\ misuse' = (misuse \/ ~Alive("framebuffer") \/ ~Alive("texture"))
  /\ pc' = After(pc)
  /\ UNCHANGED << cpuVars, flagVars, winVars, objVars, dev, bindVars,
                  fenced, grid, histVars >>

\* window.swapBuffers(); the end of the loop body
Swap ==
  /\ pc = "swap"
  /\ log' = Append(log, Ev("swap"))
  /\ pc' = Head(LoopHead)
  /\ UNCHANGED << cpuVars, flagVars, winVars, objVars, dev, bindVars, gpuVars,
                  histVars, misuse >>

\* the GPU lands one outstanding image store
GpuStore ==
  /\ \E t \in pending : pending' = pending \ { t }
  /\ UNCHANGED << pc, cpuVars, flagVars, winVars, objVars, dev, bindVars,
                  fenced, grid, log, histVars, misuse >>

----------------------------------------------------------------------------
(* Shutdown (lines 492-509) *)

\* the light buffer deleted in the camera buffer's place
DeleteOrder_lightTwice ==
  << "framebuffer", "texture", "sphereSsbo", "materialUbo", "lightUbo",
     "lightUbo", "shader" >>

\* a shutdown that deletes the four buffers in the order they were created
DeleteOrder_buffersAsCreated ==
  << "framebuffer", "texture", "cameraUbo", "lightUbo", "materialUbo",
     "sphereSsbo", "shader" >>

\* the objects in the order of the glDelete* calls (lines 493-507)
DeleteOrder ==
  << "framebuffer", "texture", "sphereSsbo", "materialUbo", "lightUbo",
     "cameraUbo", "shader" >>

\* whether deleting the names of q in turn deletes one that does not exist then
RECURSIVE DeletesDead(_, _)
DeletesDead(q, dead) ==
  IF q = << >> THEN FALSE
  ELSE \/ Count(created, Head(q)) <= Count(dead, Head(q))
       \/ DeletesDead(Tail(q), Append(dead, Head(q)))

\* glDeleteFramebuffers; glDeleteTextures; glDeleteBuffers x 4;
\* glDeleteProgram
Delete ==
  /\ pc = "delete"
  /\ deleted' = deleted \o DeleteOrder
  /\ misuse' = (misuse \/ DeletesDead(DeleteOrder, deleted))
  /\ dev' = [ b \in Buffers |->
                IF \E i \in 1..Len(DeleteOrder) : DeleteOrder[i] = BufferName(b)
                  THEN << >> ELSE dev[b] ]
  /\ pending' = IF \E i \in 1..Len(DeleteOrder) : DeleteOrder[i] = "texture"
                  THEN {} ELSE pending
  /\ pc' = After(pc)
  /\ UNCHANGED << cpuVars, flagVars, winVars, created, bindVars, fenced, grid,
                  log, histVars >>

\* return 0;
Return ==
  /\ pc = "return"
  /\ exit' = "0"
  /\ pc' = After(pc)
  /\ UNCHANGED << window, shouldClose, shader, showMenu, cpuVars,
                  flagVars, objVars, dev, bindVars, gpuVars, log, histVars,
                  misuse >>

----------------------------------------------------------------------------

Next ==
  \/ CreateWindow \/ LoadShader \/ InitCamera
  \/ CreateCameraUbo \/ CreateLightUbo \/ CreateMaterialUbo \/ CreateSphereSsbo
  \/ CreateTexture \/ CreateFramebuffer
  \/ LoopTest \/ Poll \/ Begin
  \/ CameraEdit \/ CameraSync
  \/ LightEdit \/ LightSync
  \/ MaterialEdit \/ MaterialSync
  \/ Bind \/ Dispatch \/ Barrier \/ Unbind \/ Blit \/ Swap
  \/ GpuStore
  \/ Delete \/ Return

Spec == Init /\ [][Next]_vars

----------------------------------------------------------------------------
(* Host/device consistency *)

PanelLabels == { Panel[i] : i \in 1..Len(Panel) }
BodyLabels  == { "poll" } \cup PanelLabels \cup { Frame[i] : i \in 1..Len(Frame) }

InBody == pc \in BodyLabels

Categories == { cameraUbo, lightUbo, materialUbo }

Edited(b)   == \E i \in 1..Len(log) : log[i].op = "edit" /\ log[i].buf = b
Uploaded(b) == \E i \in 1..Len(log) : log[i].op = "upload" /\ log[i].buf = b

HostBytes(b) ==
  CASE b = cameraUbo -> CameraBytes(camera)
    [] b = lightUbo -> LightBytes(light)
    [] b = materialUbo -> MaterialBytes(material)
    [] b = sphereSsbo -> SphereBytes(sphere)

\* C1: whenever the kernel is about to be dispatched, the camera frame is the
\* one computed from the current camera parameters, and the camera, light and
\* material device buffers hold exactly the bytes of the CPU-side camera
\* frame, light collection and material collection.
C1_DeviceEqualsHostAtDispatch ==
  pc = "dispatch" =>
    /\ camera = setCamera(position, target, up, fovy)
    /\ \A b \in Categories : dev[b] = HostBytes(b)

\* a dispatch after a camera parameter and a light have been edited
C1_Witness ==
  /\ pc = "dispatch"
  /\ position # InitPosition
  /\ light # InitLight
  /\ dev[cameraUbo] = CameraBytes(setCamera(position, target, up, fovy))

\* C2: in an iteration a category none of whose widgets reported a change is
\* not flagged, receives no upload and keeps the device bytes it had when the
\* iteration began; a category is flagged exactly when one of its own widgets
\* reported a change; the sphere buffer is never written in the loop.
C2_DirtyFlagIsolation ==
  InBody =>
    /\ \A b \in Categories :
         ~Edited(b) => ~Uploaded(b) /\ dev[b] = snap[b]
    /\ dev[sphereSsbo] = snap[sphereSsbo]
    /\ pc = "materialSync" =>
         /\ cameraChanged = Edited(cameraUbo)
         /\ lightChanged = Edited(lightUbo)
         /\ materialChanged = Edited(materialUbo)

\* an iteration whose only reported change is one field of one light, after
\* the three update blocks have run
C2_Witness ==
  /\ pc = "bind"
  /\ edits = 1
  /\ Edited(lightUbo) /\ Uploaded(lightUbo)
  /\ light[2].diffuse # InitLight[2].diffuse
  /\ dev[lightUbo] # snap[lightUbo]
  /\ dev[cameraUbo] = snap[cameraUbo] /\ dev[materialUbo] = snap[materialUbo]

\* C3: every upload of an iteration starts at byte 0 and covers the whole
\* device buffer of its category, and from that upload on the device buffer
\* holds the bytes of the whole in-memory collection, the records that were
\* not edited included.
C3_FullCollectionUpload ==
  \A i \in 1..Len(log) :
    log[i].op = "upload" =>
      /\ log[i].offset = 0
      /\ log[i].size = 4 * Len(dev[log[i].buf])
      /\ dev[log[i].buf] = HostBytes(log[i].buf)

\* the shininess of material 1 alone was edited and the material buffer was
\* uploaded
C3_Witness ==
  /\ pc = "bind"
  /\ Uploaded(materialUbo)
  /\ material[2].shininess # InitMaterial[2].shininess
  /\ material[1] = InitMaterial[1]
  /\ edits = 1

----------------------------------------------------------------------------
(* The per-frame protocol *)

DispatcherSteps == << "bind", "dispatch", "barrier", "unbind", "blit", "swap" >>

StepNames == { DispatcherSteps[k] : k \in 1..Len(DispatcherSteps) }

StepPrefixes ==
  { SubSeq(DispatcherSteps, 1, k) : k \in 0..Len(DispatcherSteps) }

IsStep(e) == e.op \in StepNames

\* the dispatcher's steps taken so far in the iteration, in the order taken
StepsTaken ==
  LET q == SelectSeq(log, IsStep) IN [ i \in 1..Len(q) |-> q[i].op ]

Taken(op) == \E i \in 1..Len(log) : log[i].op = op

Times(op) == Cardinality({ i \in 1..Len(log) : log[i].op = op })

AllBound ==
  /\ \A p \in Points : base[p] \in Buffers
  /\ imageUnit.texture = texture
  /\ program = shader

AllUnbound ==
  /\ \A p \in Points : base[p] = 0
  /\ imageUnit.texture = 0

\* Idle, Bound, Dispatched, Barriered, Unbound as the steps taken determine them
DispatcherState ==
  CASE Taken("blit") \/ ~Taken("bind") -> "Idle"
    [] Taken("unbind") -> "Unbound"
    [] Taken("barrier") -> "Barriered"
    [] Taken("dispatch") -> "Dispatched"
    [] OTHER -> "Bound"

\* C4: within an iteration the dispatcher's steps are taken in the order
\* bind, dispatch, barrier, unbind, blit, swap, none skipped and none
\* repeated; the dispatch is issued, and the barrier after it, with all four
\* buffers and the image bound; nothing is unbound before the barrier; an
\* iteration begins only after the previous one has taken every step through
\* the blit and the swap.
C4_DispatcherSequence ==
  /\ StepsTaken \in StepPrefixes
  /\ pc = "dispatch" => DispatcherState = "Bound" /\ AllBound
  /\ DispatcherState \in { "Dispatched", "Barriered" } => AllBound
  /\ DispatcherState = "Unbound" => AllUnbound /\ Taken("barrier")
  /\ pc = "barrier" => DispatcherState = "Dispatched"
  /\ pc = "unbind" => DispatcherState = "Barriered"
  /\ pc = "blit" => DispatcherState = "Unbound"
  /\ pc = "loopTest" /\ lastD # NoDispatch => StepsTaken = DispatcherSteps
  /\ pc = "poll" \/ pc \in PanelLabels =>
       StepsTaken = << >> /\ AllUnbound

\* the second frame's dispatch about to be issued, everything bound
C4_Witness ==
  /\ pc = "dispatch"
  /\ lastD # NoDispatch
  /\ AllBound
  /\ StepsTaken = << "bind" >>

\* C5: whenever the blit has read the image, every image store of the most
\* recent dispatch had landed.
C5_BlitReadsCompletedImage ==
  \A i \in 1..Len(log) : log[i].op = "blit" => log[i].unlanded = {}

\* every entry of the log that satisfies P comes before every one that
\* satisfies Q
Before(P(_), Q(_)) ==
  \A j \in 1..Len(log) : Q(log[j]) => \A i \in j..Len(log) : ~P(log[i])

IsEdit(e)     == e.op = "edit"
IsUpload(e)   == e.op = "upload"
IsDispatch(e) == e.op = "dispatch"
IsBlit(e)     == e.op = "blit"
IsSwap(e)     == e.op = "swap"
IsPoll(e)     == e.op = "poll"
NotPoll(e)    == e.op # "poll"

\* what C6 says of an iteration apart from the order of edits and uploads
IterationFrame ==
  /\ Times("poll") <= 1 /\ Before(IsPoll, NotPoll)
  /\ log # << >> => Taken("poll")
  /\ Before(IsEdit, IsDispatch) /\ Before(IsUpload, IsDispatch)
  /\ Before(IsDispatch, IsBlit) /\ Before(IsBlit, IsSwap)
  /\ Times("dispatch") <= 1 /\ Times("blit") <= 1 /\ Times("swap") <= 1
  /\ Taken("swap") => Taken("blit")
  /\ Taken("blit") => Taken("dispatch")
  /\ Taken("dispatch") => \A b \in Categories : Edited(b) => Uploaded(b)
  /\ pc = "loopTest" /\ log # << >> => Taken("swap")

\* C6 as stated: the iteration polls, applies its edits, uploads, dispatches
\* once, blits once and swaps once in that order, with every edit of the
\* iteration applied before any upload of the iteration.
C6_AllEditsBeforeAnyUpload ==
  IterationFrame /\ Before(IsEdit, IsUpload)

\* C6: the iteration polls first, then handles the categories in turn, each
\* category's edits applied before that category's own upload and every
\* edited category uploaded; all edits and uploads precede the dispatch; the
\* dispatch, the blit and the swap happen once each in that order.
C6_IterationOrder ==
  /\ IterationFrame
  /\ \A j \in 1..Len(log) :
       IsUpload(log[j]) =>
         \A i \in j..Len(log) : ~(IsEdit(log[i]) /\ log[i].buf = log[j].buf)

\* a complete iteration in which the camera and a light were both edited
C6_Witness ==
  /\ pc = "loopTest"
  /\ Taken("swap")
  /\ Edited(cameraUbo) /\ Uploaded(cameraUbo)
  /\ Edited(lightUbo) /\ Uploaded(lightUbo)

----------------------------------------------------------------------------
(* Startup, shutdown and bindings *)

Objects ==
  { "shader", "cameraUbo", "lightUbo", "materialUbo", "sphereSsbo", "texture",
    "framebuffer" }

NothingDone ==
  /\ created = << >>
  /\ \A b \in Buffers : dev[b] = << >>
  /\ log = << >>
  /\ lastD = NoDispatch

\* C7: a window that could not be created ends the program by an exception
\* with the kernel not loaded, nothing created and the loop not entered; a
\* kernel load returning 0 ends it by an exception with no buffer, texture or
\* framebuffer created and nothing dispatched; past each test the window and
\* the kernel are good; exit code 0 is returned only after the loop has ended
\* and the shutdown has run.
C7_StartupFailureFatal ==
  /\ window = "null" =>
       pc = "aborted" /\ exit = "exception" /\ shader = -1 /\ NothingDone
  /\ shader = 0 =>
       pc = "aborted" /\ exit = "exception" /\ window = "ok" /\ NothingDone
  /\ pc \notin { "createWindow", "aborted" } => window = "ok"
  /\ pc \notin { "createWindow", "loadShader", "aborted" } => shader > 0
  /\ exit = "exception" <=> pc = "aborted"
  /\ exit = "0" <=> pc = "done"
  /\ pc = "done" => shouldClose /\ window = "ok" /\ shader > 0

\* the kernel failed to load after the window was created
C7_Witness ==
  /\ pc = "aborted"
  /\ window = "ok"
  /\ shader = 0
  /\ exit = "exception"

\* C8: no object is created twice or deleted more often than created; during
\* the loop all four buffers and the kernel exist, each created once, and
\* nothing has been deleted; nothing is bound, uploaded to, dispatched with or
\* deleted when it does not exist; when the program returns 0 every created
\* object has been deleted exactly once.
C8_ResourceLifecycle ==
  /\ \A n \in Objects :
       Count(created, n) <= 1 /\ Count(deleted, n) <= Count(created, n)
  /\ \A i \in 1..Len(created) : created[i] \in Objects
  /\ \A i \in 1..Len(deleted) : deleted[i] \in Objects
  /\ InBody \/ pc = "loopTest" =>
       /\ \A n \in Objects : Count(created, n) = 1
       /\ deleted = << >>
  /\ ~misuse
  /\ pc = "done" => \A n \in Objects : Count(deleted, n) = 1 /\ ~Alive(n)
  /\ pc = "done" => \A b \in Buffers : dev[b] = << >>

\* a normal return after a run that edited and dispatched
C8_Witness ==
  /\ pc = "done"
  /\ exit = "0"
  /\ lastD # NoDispatch
  /\ edits > 0
  /\ Len(deleted) = Cardinality(Objects)

\* C9: at every dispatch point 0 holds the sphere storage buffer, point 1 the
\* camera buffer, point 2 the light buffer, point 3 the material buffer, and
\* image unit 0 holds the texture write-only; from the unbind step until the
\* next frame's binds (the blit, the swap, the loop test and the panel) the
\* four points and the image unit hold nothing.
C9_BindingPoints ==
  /\ pc = "dispatch" =>
       /\ base[<< "SSBO", 0 >>] = sphereSsbo
       /\ base[<< "UBO", 1 >>] = cameraUbo
       /\ base[<< "UBO", 2 >>] = lightUbo
       /\ base[<< "UBO", 3 >>] = materialUbo
       /\ ImageUnit = 0 /\ uniforms.image = ImageUnit
       /\ imageUnit = [ texture |-> texture, access |-> "WRITE_ONLY" ]
  /\ (InBody \/ pc = "loopTest") /\ pc \notin { "dispatch", "barrier", "unbind" } =>
       AllUnbound

\* the edit phase of an iteration that follows a frame
C9_Witness ==
  /\ pc = "lightEdit"
  /\ lastD # NoDispatch
  /\ AllUnbound
  /\ showMenu

\* C10: when a dispatch follows the previous dispatch with no edit reported
\* in between, the four device buffers are what they were at the previous
\* dispatch and the kernel stores the same image.
C10_FrameIdempotent ==
  pc = "dispatch" /\ lastD # NoDispatch /\ ~(\E i \in 1..Len(log) : IsEdit(log[i])) =>
    /\ \A b \in Buffers : dev[b] = lastD.dev[b]
    /\ Dispatched.out = lastD.out

\* a dispatch repeated with no edit in between, after an earlier edit
C10_Witness ==
  /\ pc = "dispatch"
  /\ lastD = Dispatched
  /\ ~(\E i \in 1..Len(log) : IsEdit(log[i]))
  /\ light # InitLight
  /\ lastD.dev[lightUbo] = LightBytes(light)

----------------------------------------------------------------------------
(* The loop's exit *)

ShutdownLabels == { Shutdown[i] : i \in 1..Len(Shutdown) } \cup { "done" }

C11_State ==
  /\ shouldClose => pc \in ShutdownLabels
  /\ pc \in ShutdownLabels => shouldClose /\ log = << >>
  /\ pc = "loopTest" /\ log # << >> => StepsTaken = DispatcherSteps

C11_Step ==
  /\ pc \in BodyLabels => pc' \in BodyLabels \cup { "loopTest" }
  /\ pc \in BodyLabels /\ pc' = "loopTest" =>
       pc = "swap" /\ StepsTaken' = DispatcherSteps
  /\ pc \notin ShutdownLabels /\ pc' \in ShutdownLabels =>
       pc = "loopTest" /\ shouldClose'
  /\ shouldClose' # shouldClose => pc = "loopTest"
  /\ shouldClose =>
       /\ lastD' = lastD /\ log' = log /\ grid' = grid
       /\ dev' = dev \/ pc = "delete"

\* C11: the loop is left only at its test, and only when the window reports
\* that it is closed; an iteration that has passed the test takes every step
\* through dispatch, barrier, unbind, blit and swap before the test is made
\* again; once the window has reported closed no dispatch, upload or blit
\* follows.
C11_LoopExit == []C11_State /\ [][C11_Step]_vars

\* the window reported closed after a frame was rendered with the panel open
C11_Witness ==
  /\ pc = "delete"
  /\ shouldClose
  /\ lastD # NoDispatch
  /\ showMenu
  /\ deleted = << >>

----------------------------------------------------------------------------
(* The camera frame *)

CameraFields == { "origin", "right", "up", "position" }

CameraParameters == << position, target, up, fovy >>

C12_State ==
  pc = "dispatch" =>
    /\ DOMAIN camera = CameraFields
    /\ \A f \in CameraFields :
         camera[f] = setCamera(position, target, up, fovy)[f]

C12_Step ==
  /\ camera' # camera =>
       /\ pc \in { "initCamera", "cameraSync" }
       /\ \A f \in CameraFields :
            camera'[f] = setCamera(position', target', up', fovy')[f]
  /\ CameraParameters' # CameraParameters => pc = "cameraEdit" /\ pc' = "cameraSync"
  /\ pc = "cameraSync" /\ pc' # pc /\ Edited(cameraUbo) =>
       camera' = setCamera(position, target, up, fovy)

\* C12: at every dispatch the four fields of the camera frame (origin, right,
\* up, position) are those setCamera computes from the current eye position,
\* target, up vector and field of view; a step that changes the frame sets
\* all four fields to that result; a change of any of the four parameters is
\* followed by the host's next step, which recomputes the frame; no other
\* step writes a field of the frame.
C12_CameraFrameWhole == []C12_State /\ [][C12_Step]_vars

InitFrame == setCamera(InitPosition, InitTarget, InitUp, InitFovy)

\* a dispatch after the eye position or target was edited, with a frame that
\* differs from the initial one in origin, right and position or up
C12_Witness ==
  /\ pc = "dispatch"
  /\ camera = setCamera(position, target, up, fovy)
  /\ camera.origin # InitFrame.origin
  /\ camera.right # InitFrame.right
  /\ camera.position # InitFrame.position \/ camera.up # InitFrame.up
  /\ dev[cameraUbo] = CameraBytes(camera)

----------------------------------------------------------------------------
(* The dispatch grid *)

\* glTexImage2D(GL_TEXTURE_2D, 0, GL_RGBA8, width, height, ...)
TextureSize == << width, height >>

\* C13: every dispatch is issued with the grid width x height x 1, that is
\* 960 x 540 x 1, one group per pixel of the output texture, whatever the
\* size of the window's drawable the frame is copied to.
C13_DispatchGrid ==
  /\ TextureSize = << 960, 540 >>
  /\ Taken("dispatch") \/ lastD # NoDispatch =>
       /\ grid = << 960, 540, 1 >>
       /\ grid = << TextureSize[1], TextureSize[2], 1 >>
  /\ ~Taken("dispatch") /\ lastD = NoDispatch => grid = << 0, 0, 0 >>
  /\ \A i \in 1..Len(log) :
       IsBlit(log[i]) => grid = << width, height, 1 >> /\ log[i].rect \in Drawables

\* a frame dispatched with the full grid and copied to a drawable of
\* another size
C13_Witness ==
  /\ pc = "swap"
  /\ grid = << width, height, 1 >>
  /\ \E i \in 1..Len(log) :
       IsBlit(log[i]) /\ log[i].rect # TextureSize /\ log[i].rect = << 480, 270 >>

----------------------------------------------------------------------------
(* The records' layout *)

Records == << CameraMembers, LightMembers, MaterialMembers, SphereMembers >>

IsVector(m) == m.size \in { 12, 16 }
IsScalar(m) == m.size = 4

C14_Static ==
  \A r \in 1..Len(Records) :
    LET ms == Records[r]
    IN  /\ \A k \in 1..Len(ms) :
             /\ IsVector(ms[k]) \/ IsScalar(ms[k])
             /\ IsVector(ms[k]) => ms[k].align = 16 /\ OffsetOf(ms, k) % 16 = 0
             /\ ms[k].align = 4 => IsScalar(ms[k])
             /\ IsScalar(ms[k]) => ms[k].align = 4 /\ OffsetOf(ms, k) % 4 = 0
        /\ SizeOf(ms) % 16 = 0

\* the 0-based word at which vector member k of record i begins, for records
\* of sz bytes whose vector members lie every 16 bytes
VectorWord(sz, i, k) == ((i - 1) * sz + (k - 1) * 16) \div 4

\* sizeof(Camera), sizeof(Light), sizeof(Material), sizeof(Sphere)
CameraRecord   == SizeOf(CameraMembers)
LightRecord    == SizeOf(LightMembers)
MaterialRecord == SizeOf(MaterialMembers)
SphereRecord   == SizeOf(SphereMembers)

C14_Device ==
  pc = "dispatch" =>
    /\ \A b \in Buffers : Len(dev[b]) % 4 = 0
    /\ \A k \in 1..4 :
         SubSeq(dev[cameraUbo], VectorWord(CameraRecord, 1, k) + 1,
                VectorWord(CameraRecord, 1, k) + 4)
           = << camera.origin, camera.right, camera.up, camera.position >>[k]
               \o << Pad >>
    /\ \A i \in 1..lightCount : \A k \in 1..4 :
         SubSeq(dev[lightUbo], VectorWord(LightRecord, i, k) + 1,
                VectorWord(LightRecord, i, k) + 4)
           = << light[i].ambient, light[i].diffuse, light[i].specular,
                light[i].position >>[k]
    /\ \A i \in 1..materialCount :
         /\ \A k \in 1..3 :
              SubSeq(dev[materialUbo], VectorWord(MaterialRecord, i, k) + 1,
                     VectorWord(MaterialRecord, i, k) + 4)
                = << material[i].ambient, material[i].diffuse,
                     material[i].specular >>[k]
         /\ SubSeq(dev[materialUbo], VectorWord(MaterialRecord, i, 4) + 1,
                   VectorWord(MaterialRecord, i, 4) + 4)
              = << material[i].shininess, Pad, Pad, Pad >>
    /\ \A i \in 1..sphereCount :
         SubSeq(dev[sphereSsbo], VectorWord(SphereRecord, i, 1) + 1,
                VectorWord(SphereRecord, i, 1) + 8)
           = sphere[i].center
               \o << sphere[i].radius, sphere[i].materialIndex, Pad, Pad, Pad >>

\* C14: in the Camera, Light, Material and Sphere records every 3- or
\* 4-component vector member lies at a byte offset that is a multiple of 16,
\* only the scalar members are aligned to 4 bytes, and the size of each
\* record is a multiple of 16; the buffers read at a dispatch hold each
\* vector member at such an offset.
C14_RecordLayout == C14_Static /\ C14_Device

\* a dispatch reading an edited shininess from byte 48 of the second
\* material record
C14_Witness ==
  /\ pc = "dispatch"
  /\ material[2].shininess # InitMaterial[2].shininess
  /\ dev[materialUbo][VectorWord(MaterialRecord, 2, 4) + 1] = material[2].shininess
  /\ VectorWord(MaterialRecord, 2, 4) * 4 = 64 + 48

----------------------------------------------------------------------------
(* The degenerate camera *)

Zero3 == << 0, 0, 0 >>

\* the viewing direction of the current parameters
Forward ==
  normalize(<< target[1] - position[1], target[2] - position[2],
               target[3] - position[3] >>)

\* the up vector is parallel to the viewing direction
Degenerate == cross(Forward, up) = Zero3

\* C15: when the up vector is parallel to target - eye, the cross product of
\* the viewing direction and up is the zero vector, normalize returns it
\* unchanged, the frame's right and up are both (0, 0, 0) while position and
\* origin are set as usual; no error is raised and the collapsed frame is in
\* the camera buffer at the dispatch like any other frame.
C15_DegenerateCamera ==
  pc = "dispatch" /\ Degenerate =>
    /\ normalize(cross(Forward, up)) = Zero3
    /\ camera.right = Zero3
    /\ camera.up = Zero3
    /\ camera.position = position
    /\ camera.origin =
         [ i \in 1..3 |->
             position[i] + Mul(Forward[i], (Scale * Scale) \div TanHalf(fovy)) ]
    /\ camera.origin # position
    /\ dev[cameraUbo] = CameraBytes(camera)
    /\ Edited(cameraUbo) => Uploaded(cameraUbo)
    /\ exit = "none"

\* a dispatch in the iteration in which the up vector was edited to lie along
\* the viewing direction, the collapsed frame uploaded
C15_Witness ==
  /\ pc = "dispatch"
  /\ Degenerate
  /\ Edited(cameraUbo) /\ Uploaded(cameraUbo)
  /\ camera.right = Zero3 /\ camera.up = Zero3
  /\ dev[cameraUbo][5] = 0 /\ dev[cameraUbo][9] = 0

----------------------------------------------------------------------------
(* Order of creation and destruction *)

Reverse(q) == [ i \in 1..Len(q) |-> q[Len(q) + 1 - i] ]

CreationOrder ==
  << "shader", "cameraUbo", "lightUbo", "materialUbo", "sphereSsbo",
     "texture", "framebuffer" >>

DestructionOrder ==
  << "framebuffer", "texture", "sphereSsbo", "materialUbo", "lightUbo",
     "cameraUbo", "shader" >>

\* C16: the objects are created in the order kernel, camera buffer, light
\* buffer, material buffer, sphere buffer, texture, framebuffer, and at
\* shutdown they are destroyed in exactly the reverse order: framebuffer,
\* texture, sphere buffer, material buffer, light buffer, camera buffer,
\* kernel.
C16_ReverseDestruction ==
  /\ \E k \in 0..Len(CreationOrder) : created = SubSeq(CreationOrder, 1, k)
  /\ InBody \/ pc \in { "loopTest", "delete" } =>
       created = CreationOrder /\ deleted = << >>
  /\ deleted # << >> =>
       /\ pc \in { "return", "done" }
       /\ deleted = DestructionOrder
       /\ deleted = Reverse(created)
  /\ pc \in { "return", "done" } => deleted = Reverse(CreationOrder)

\* the deletes done after a run that rendered a frame
C16_Witness ==
  /\ pc = "return"
  /\ created = CreationOrder
  /\ deleted = DestructionOrder
  /\ lastD # NoDispatch
  /\ exit = "none"

----------------------------------------------------------------------------
(* Uploads only after edits *)

NoFlag == ~cameraChanged /\ ~lightChanged /\ ~materialChanged

SyncLabel(b) ==
  CASE b = cameraUbo -> "cameraSync"
    [] b = lightUbo -> "lightSync"
    [] b = materialUbo -> "materialSync"

\* the position in the iteration's log of the first event of kind op on b,
\* or 0
FirstAt(op, b) ==
  LET I == { i \in 1..Len(log) : log[i].op = op /\ log[i].buf = b }
  IN  IF I = {} THEN 0 ELSE CHOOSE i \in I : \A j \in I : i <= j

C17_State ==
  /\ pc \in { "loopTest", "poll", "begin", "cameraEdit" } => NoFlag
  /\ pc \in StepNames => NoFlag
  /\ pc = "cameraSync" => ~lightChanged /\ ~materialChanged
  /\ pc \in { "lightEdit", "lightSync" } => ~materialChanged
  /\ pc = "lightEdit" => ~lightChanged
  /\ InBody =>
       /\ \A b \in Categories :
            Uploaded(b) =>
              /\ Edited(b)
              /\ FirstAt("edit", b) < FirstAt("upload", b)
              /\ Cardinality({ i \in 1..Len(log) :
                                 log[i].op = "upload" /\ log[i].buf = b }) = 1
       /\ (\A b \in Categories : ~Edited(b)) => dev = snap

C17_Step ==
  /\ InBody /\ dev' # dev =>
       \E b \in Categories :
         /\ pc = SyncLabel(b)
         /\ Edited(b)
         /\ \A c \in Buffers \ { b } : dev'[c] = dev[c]
  /\ /\ targetLight' # targetLight \/ targetMaterial' # targetMaterial
     /\ light' = light /\ material' = material
     => /\ log' = log /\ dev' = dev
        /\ pc = "lightEdit" => ~lightChanged'
        /\ pc = "materialEdit" => ~materialChanged'

\* C17: a device buffer is written in an iteration only after a widget of
\* its category reported a change in that same iteration; an iteration with
\* no reported change writes no buffer; choosing another light or material
\* number changes no flag and writes nothing; no flag set in one iteration is
\* still set when the next iteration begins.
C17_NoUploadWithoutEdit == []C17_State /\ [][C17_Step]_vars

\* an iteration with the panel open in which nothing was reported changed and
\* nothing was written, after an earlier iteration edited light 0 and with
\* light 1 selected and never edited
C17_Witness ==
  /\ pc = "bind"
  /\ showMenu
  /\ edits > 0
  /\ Len(log) = 1
  /\ dev = snap
  /\ targetLight = 1
  /\ light[1] # InitLight[1] /\ light[2] = InitLight[2]
  /\ dev[lightUbo] = LightBytes(light)

----------------------------------------------------------------------------
(* The panel's visibility *)

C19_State ==
  /\ pc = "begin" => showMenu
  /\ pc \in PanelLabels => log[1].op = "poll" /\ StepsTaken = << >>
  /\ pc = "dispatch" /\ Len(log) = 2 /\ lastD # NoDispatch =>
       /\ \A b \in Buffers : dev[b] = lastD.dev[b]
       /\ dev = snap
       /\ Dispatched = lastD

C19_Step ==
  /\ showMenu /\ ~showMenu' => pc = "begin"
  /\ ~showMenu /\ showMenu' => pc = "poll"
  /\ pc = "poll" /\ pc' # pc =>
       /\ showMenu' => pc' = "begin"
       /\ ~showMenu' => pc' = "bind" /\ log' = log /\ Len(log) = 1
  /\ pc' = "begin" => pc = "poll" \/ pc = "begin"
  /\ pc \in { "loopTest", "poll" } \cup StepNames =>
       cpuVars' = cpuVars /\ dev' = dev /\ flagVars' = flagVars
  /\ InBody /\ (cpuVars' # cpuVars \/ dev' # dev) =>
       pc \in PanelLabels \ { "begin" }

\* C19: the panel is shown from the iteration in which the TAB key is seen
\* and in every later iteration until it is closed through the panel itself;
\* an iteration that finds the panel hidden goes from the key test straight
\* to the binds, and from there through the swap no camera parameter, light
\* or material value changes and no device buffer is written, so its
\* dispatch reads what the previous dispatch read.
C19_PanelLatch == []C19_State /\ [][C19_Step]_vars

\* a frame dispatched with the panel hidden again, after edits made while it
\* was shown
C19_Witness ==
  /\ pc = "dispatch"
  /\ ~showMenu
  /\ Len(log) = 2
  /\ edits > 1
  /\ camera # InitFrame /\ material # InitMaterial
  /\ lastD = Dispatched

----------------------------------------------------------------------------
(* What the panel cannot edit *)

Colours == { "ambient", "diffuse", "specular" }

C20_State ==
  /\ sphere = InitSphere
  /\ Len(light) = Len(InitLight) /\ Len(material) = Len(InitMaterial)
  /\ \A i \in 1..Len(light) :
       /\ light[i].position[4] = InitLight[i].position[4]
       /\ \A c \in Colours : light[i][c][4] = InitLight[i][c][4]
  /\ \A i \in 1..Len(material) :
       \A c \in Colours : material[i][c][4] = InitMaterial[i][c][4]
  /\ InBody \/ pc \in { "loopTest", "delete" } =>
       dev[sphereSsbo] = SphereBytes(InitSphere)
  /\ pc = "dispatch" =>
       /\ uniforms.lightCount = Len(light) /\ uniforms.lightCount = lightCount
       /\ uniforms.sphereCount = Len(sphere) /\ uniforms.sphereCount = sphereCount
       /\ Len(dev[lightUbo]) * 4 = uniforms.lightCount * LightRecord
       /\ Len(dev[sphereSsbo]) * 4 = uniforms.sphereCount * SphereRecord

C20_Step ==
  /\ sphere' = sphere
  /\ dev'[sphereSsbo] # dev[sphereSsbo] => pc \in { "createSphereSsbo", "delete" }
  /\ \A i \in 1..Len(light) :
       light'[i].position[4] = light[i].position[4]

\* C20: the sphere buffer and the in-memory sphere collection stay as first
\* uploaded for the whole loop; the light count and the sphere count given to
\* the kernel at every dispatch are the sizes of the collections; the fourth
\* component of every light position and of every light and material colour
\* keeps its initial value whatever is edited.
C20_NoEditPath == []C20_State /\ [][C20_Step]_vars

\* a dispatch after the position of a light and a colour of a material were
\* edited
C20_Witness ==
  /\ pc = "dispatch"
  /\ \E i \in 1..Len(light) :
       /\ Xyz(light[i].position) # Xyz(InitLight[i].position)
       /\ light[i].position[4] = 1000
  /\ \E i \in 1..Len(material) : \E c \in Colours :
       /\ Xyz(material[i][c]) # Xyz(InitMaterial[i][c])
       /\ material[i][c][4] = InitMaterial[i][c][4]
  /\ dev[lightUbo] = LightBytes(light)
  /\ dev[materialUbo] = MaterialBytes(material)

====
